---- MODULE Spec2Model ----
(***************************************************************************)
(* Model of the hostname-routing state machine of expose (src/expose.ts):  *)
(* the persisted state file, the routing config files, the spawned server  *)
(* and tunnel-controller processes, the tunnels known to the control       *)
(* plane, and the start / stop commands as sequences of steps, one step    *)
(* per externally visible effect.                                          *)
(*                                                                         *)
(* Strings are TLA+ strings (Len, \o and SubSeq work on them), so the      *)
(* hostname parser really splits on "." and really replaces "." by "-".    *)
(* A JavaScript object with string keys is a sequence of entries in        *)
(* insertion order (the order Object.entries and JSON.stringify use); the  *)
(* inputs of the model contain no integer-like key.                        *)
(***************************************************************************)
EXTENDS Integers, Sequences, FiniteSets, TLC

VARIABLES
    stateFile,   \* ~/.expose/state.json: [exists, parses, servers, tunnels]
    configs,     \* routing config files on disk: path -> [tunnel, ingress]
    cpTunnels,   \* names of the tunnels that exist in the control plane
    nextPid,     \* the pid the next spawn returns
    procKind,    \* pid -> "server" | "managed" | "dedicated", spawned processes
    alive,       \* pids of the spawned processes still running
    signalled,   \* every pid a SIGTERM was ever sent to (0 included)
    faults,      \* failed external commands and crashes so far
    inv,         \* invocation slot -> position and locals of a running command
    done         \* summary of the last completed invocation, until the next begins

vars == <<stateFile, configs, cpTunnels, nextPid, procKind, alive, signalled, faults, inv, done>>

----------------------------------------------------------------------------
(* Bounds and configuration *)

MaxPid == 2            \* spawns per behaviour
MaxFaults == 1         \* failed external commands and crashes per behaviour

DOMAIN_NAME == "my.io"              \* CONFIG.domain
MANAGED_TUNNEL_NAME == "expose-tunnel"
BASE_PORT == 3000

Invocations == {1, 2}  \* command slots; one is in use when commands are sequential

HostInputs == {"x", "x.my.io", "x.b.io", "expose"}
ExtPorts == {BASE_PORT}
NoPort == 0            \* externalPort undefined

MaxSnapshot == 2       \* server records of a snapshot handed to a pure function
OLD_TUNNEL_NAME == "old-tunnel"     \* CONFIG.tunnelName of an earlier configuration
SnapshotHosts == {"x", "x.b.io", "expose"}
SnapshotPorts == {BASE_PORT - 1, BASE_PORT, BASE_PORT + 1}
ParseInputs == {"", "x", "a-b", "x.y", "x.my.io", "a.b.c.d", ".", "a..b", "x."}

----------------------------------------------------------------------------
(* String helpers: String.prototype.split / join / replace *)

CharAt(s, i) == SubSeq(s, i, i)

RECURSIVE SplitAcc(_, _, _, _)
SplitAcc(s, i, cur, acc) ==
    IF i > Len(s) THEN Append(acc, cur)
    ELSE IF CharAt(s, i) = "." THEN SplitAcc(s, i + 1, "", Append(acc, cur))
    ELSE SplitAcc(s, i + 1, cur \o CharAt(s, i), acc)

Split(s) == SplitAcc(s, 1, "", <<>>)

RECURSIVE Join(_)
Join(parts) ==
    IF Len(parts) = 0 THEN ""
    ELSE IF Len(parts) = 1 THEN parts[1]
    ELSE parts[1] \o "." \o Join(Tail(parts))

\* String.prototype.replace with a string pattern: the first "." only
ReplaceDots_First(s) ==
    IF \E k \in 1..Len(s) : CharAt(s, k) = "."
    THEN LET first == CHOOSE k \in 1..Len(s) :
                          /\ CharAt(s, k) = "."
                          /\ \A j \in 1..(k - 1) : CharAt(s, j) # "."
         IN  SubSeq(s, 1, first - 1) \o "-" \o SubSeq(s, first + 1, Len(s))
    ELSE s

RECURSIVE ReplaceDots(_)
ReplaceDots(s) ==
    IF Len(s) = 0 THEN ""
    ELSE (IF CharAt(s, 1) = "." THEN "-" ELSE CharAt(s, 1))
             \o ReplaceDots(SubSeq(s, 2, Len(s)))

\* a parser that reads a two-segment input as a full domain
parseHostname_TwoIsDomain(input) ==
    LET parts == Split(input)
        n == Len(parts)
    IN  IF n = 1
        THEN [subdomain |-> input, domain |-> DOMAIN_NAME,
              hostname |-> input \o "." \o DOMAIN_NAME, key |-> input]
        ELSE [subdomain |-> Join(SubSeq(parts, 1, n - 2)),
              domain |-> Join(SubSeq(parts, n - 1, n)),
              hostname |-> input,
              key |-> ReplaceDots(input)]

parseHostname(input) ==
    LET parts == Split(input)
        n == Len(parts)
    IN  IF n = 1
        THEN [subdomain |-> input, domain |-> DOMAIN_NAME,
              hostname |-> input \o "." \o DOMAIN_NAME, key |-> input]
        ELSE IF n = 2
        THEN [subdomain |-> input, domain |-> DOMAIN_NAME,
              hostname |-> input \o "." \o DOMAIN_NAME, key |-> input]
        ELSE [subdomain |-> Join(SubSeq(parts, 1, n - 2)),
              domain |-> Join(SubSeq(parts, n - 1, n)),
              hostname |-> input,
              key |-> ReplaceDots(input)]

ParsedInputs == [h \in HostInputs \cup {""} |-> parseHostname(h)]

----------------------------------------------------------------------------
(* Objects with string keys, kept as sequences of entries in insertion order *)

Idx(entries, k) == {j \in 1..Len(entries) : entries[j].key = k}

Has(entries, k) == Idx(entries, k) # {}

Get(entries, k) == entries[CHOOSE j \in Idx(entries, k) : TRUE]

\* an assignment that leaves v as the only entry
Put_Only(entries, v) == <<v>>

\* obj[k] = v : in place when the key exists, appended otherwise
Put(entries, v) ==
    IF Has(entries, v.key)
    THEN [j \in 1..Len(entries) |-> IF entries[j].key = v.key THEN v ELSE entries[j]]
    ELSE Append(entries, v)

\* a delete that empties the object
Del_All(entries, k) == <<>>

\* delete obj[k]
Del(entries, k) == SelectSeq(entries, LAMBDA e : e.key # k)

EmptyState == [servers |-> <<>>, tunnels |-> <<>>]

NoFile == [exists |-> FALSE, parses |-> TRUE, servers |-> <<>>, tunnels |-> <<>>]

\* a state file whose content is no JSON document
CorruptFile == [exists |-> TRUE, parses |-> FALSE, servers |-> <<>>, tunnels |-> <<>>]

\* a load that never fails to parse
CanLoad_Always(file) == TRUE

\* loadState, lines 174-188: no file, or a file JSON.parse accepts
CanLoad(file) == ~file.exists \/ file.parses

loadState == [servers |-> stateFile.servers, tunnels |-> stateFile.tunnels]

\* a save that writes the servers only
Saved_ServersOnly(state) ==
    [exists |-> TRUE, parses |-> TRUE, servers |-> state.servers, tunnels |-> <<>>]

Saved(state) ==
    [exists |-> TRUE, parses |-> TRUE, servers |-> state.servers, tunnels |-> state.tunnels]

RECURSIVE Probe(_, _)
Probe(usedPorts, port) ==
    IF port \in usedPorts THEN Probe(usedPorts, port + 1) ELSE port

\* an allocator that answers the port after the highest one in use
getNextAvailablePort_PastHighest(state) ==
    LET ports == {state.servers[j].port : j \in 1..Len(state.servers)} \cup {BASE_PORT - 1}
    IN  (CHOOSE p \in ports : \A q \in ports : q <= p) + 1

\* an allocator that answers the base port whatever is in use
getNextAvailablePort_Base(state) == BASE_PORT

getNextAvailablePort(state) ==
    Probe({state.servers[j].port : j \in 1..Len(state.servers)}, BASE_PORT)

----------------------------------------------------------------------------
(* Routing configs *)

MANAGED_CONFIG_PATH == "tunnel-config.yml"

DedicatedConfigPath(key) == "tunnel-" \o key \o ".yml"

CatchAll == [service |-> "http_status:404"]

HostRule(hostname, port) ==
    [hostname |-> hostname, service |-> "http://localhost:" \o ToString(port)]

RECURSIVE ManagedRules(_)
ManagedRules(servers) ==
    IF Len(servers) = 0 THEN <<>>
    ELSE LET server == Head(servers)
         IN  (IF server.tunnelMode = "managed" /\ server.tunnelName = MANAGED_TUNNEL_NAME
              THEN <<HostRule(server.hostname, server.port)>>
              ELSE <<>>) \o ManagedRules(Tail(servers))

\* a builder that puts the catch-all first
generateTunnelConfig_CatchAllFirst(state, tunnelId) ==
    [tunnel |-> tunnelId, ingress |-> <<CatchAll>> \o ManagedRules(state.servers)]

generateTunnelConfig(state, tunnelId) ==
    [tunnel |-> tunnelId, ingress |-> Append(ManagedRules(state.servers), CatchAll)]

\* a dedicated config without the catch-all
DedicatedConfig_NoCatchAll(tunnelId, hostname, port) ==
    [tunnel |-> tunnelId, ingress |-> <<HostRule(hostname, port)>>]

DedicatedConfig(tunnelId, hostname, port) ==
    [tunnel |-> tunnelId, ingress |-> <<HostRule(hostname, port), CatchAll>>]

\* writeFileSync(configPath, yaml): create or overwrite
writeTunnelConfig(files, config, configPath) ==
    [p \in DOMAIN files \cup {configPath} |->
        IF p = configPath THEN config ELSE files[p]]

----------------------------------------------------------------------------
(* Control plane (cloudflared) *)

NoId == ""             \* null tunnel id / null server key (both falsy)

TunnelIdOf(name) == "id:" \o name

\* cloudflared tunnel list, then find by name; null when the command fails
getTunnelId(known, name, listOk) ==
    IF listOk /\ name \in known THEN TunnelIdOf(name) ELSE NoId

\* cloudflared tunnel create: the control plane refuses a name it already has
CanCreate(known, name, createOk) == createOk /\ name \notin known

\* createTunnel: create, then look the id up; null when either fails
createTunnel(known, name, createOk, listOk) ==
    IF CanCreate(known, name, createOk)
    THEN getTunnelId(known \cup {name}, name, listOk)
    ELSE NoId

AfterCreate(known, name, createOk) ==
    IF CanCreate(known, name, createOk) THEN known \cup {name} ELSE known

----------------------------------------------------------------------------
(* Invocation records *)

ServerRecord(parsed, port, pid, serverType, tunnelMode, tunnelName) ==
    [key |-> parsed.key, subdomain |-> parsed.subdomain, domain |-> parsed.domain,
     hostname |-> parsed.hostname, port |-> port, pid |-> pid,
     serverType |-> serverType, tunnelMode |-> tunnelMode, tunnelName |-> tunnelName]

TunnelRecord(name, id, pid, configPath) ==
    [key |-> name, id |-> id, pid |-> pid, status |-> "running", configPath |-> configPath]

NoServer == ServerRecord(ParsedInputs[""], 0, 0, "none", "none", "")

\* what a command can change, as it is now and as the step leaves it
World ==
    [file |-> stateFile, configs |-> configs, cp |-> cpTunnels,
     pids |-> nextPid, signalled |-> signalled]

WorldNext ==
    [file |-> stateFile', configs |-> configs', cp |-> cpTunnels',
     pids |-> nextPid', signalled |-> signalled']

NoWorld ==
    [file |-> NoFile, configs |-> [p \in {} |-> 0], cp |-> {}, pids |-> 1, signalled |-> {}]

\* what one command did: pids spawned and signalled, external commands issued
\* and those that failed, config files written, saves of the state file
NoEff ==
    [spawned |-> {}, signals |-> {}, cmds |-> {}, failed |-> {}, cfg |-> {}, saves |-> 0]

IdleInv ==
    [pc |-> "idle", op |-> "none", input |-> "", dedicated |-> FALSE,
     externalPort |-> NoPort, state |-> EmptyState, before |-> NoWorld,
     parsed |-> ParsedInputs[""], port |-> 0, serverType |-> "none",
     serverPid |-> 0, tunnelName |-> "", tunnelId |-> NoId,
     server |-> NoServer, ret |-> "none", eff |-> NoEff]

DetectedType == "static"   \* what detectServerType answers for the directory

Summary(r, outcome, after, eff) ==
    [op |-> r.op, input |-> r.input, dedicated |-> r.dedicated,
     externalPort |-> r.externalPort, key |-> r.parsed.key, server |-> r.server,
     outcome |-> outcome,
     before |-> r.before, after |-> after, eff |-> eff]

\* the command ends (process.exit or return from main): its summary is logged
Finish(i, r, outcome, eff) ==
    /\ done' = <<Summary(r, outcome, WorldNext, eff)>>
    /\ inv' = [inv EXCEPT ![i] = IdleInv]

\* an external command exits non-zero, within the budget of failures
Outcome(oks) ==
    /\ faults' = faults + Cardinality({j \in 1..Len(oks) : ~oks[j]})
    /\ faults' <= MaxFaults

\* a signal that reaches every running process
Kill_All(ps) ==
    /\ signalled' = signalled \cup ps \cup alive
    /\ alive' = {}

\* process.kill(pid, 'SIGTERM') for each pid of ps
Kill(ps) ==
    /\ signalled' = signalled \cup ps
    /\ alive' = alive \ ps

\* the spawns a behaviour may make: MaxPid for each command that is running
PidLimit == MaxPid * Cardinality({j \in Invocations : inv[j].pc # "idle"})

\* what a process.kill inside try/catch adds to the failures: it throws when
\* a pid is of no running process
KillFailed(ps) == IF ps \subseteq alive THEN {} ELSE {"kill"}

\* a signal failure that is thrown on instead of caught
AfterKill_Throws(ps, next) == IF ps \subseteq alive THEN next ELSE "thrown"

\* where the command goes after a process.kill inside try/catch: the catch
\* block only warns
AfterKill(ps, next) == next

\* spawn(...): a new detached process
Spawn(kind) ==
    /\ nextPid <= PidLimit
    /\ procKind' = [p \in DOMAIN procKind \cup {nextPid} |->
                        IF p = nextPid THEN kind ELSE procKind[p]]
    /\ alive' = alive \cup {nextPid}
    /\ nextPid' = nextPid + 1

Init ==
    /\ stateFile = NoFile
    /\ configs = [p \in {} |-> 0]
    /\ cpTunnels = {}
    /\ nextPid = 1
    /\ faults = 0
    /\ procKind = [p \in {} |-> "none"]
    /\ alive = {}
    /\ signalled = {}
    /\ inv = [i \in Invocations |-> IdleInv]
    /\ done = <<>>

----------------------------------------------------------------------------
(* start *)

\* a start that never finds its key in use
KeyInUse_Never(state, key) == FALSE

\* startServer, line 606: if (state.servers[parsed.key])
KeyInUse(state, key) == Has(state.servers, key)

\* startServer, lines 602-610: load, parse, refuse a key already in use
StartLoad(i, hostnameInput, dedicated, externalPort) ==
    /\ inv[i].pc = "idle"
    /\ UNCHANGED <<stateFile, configs, cpTunnels, nextPid, procKind, alive, signalled, faults>>
    /\ LET state == loadState
           parsed == ParsedInputs[hostnameInput]
           r == [IdleInv EXCEPT !.op = "start", !.input = hostnameInput,
                                !.dedicated = dedicated, !.externalPort = externalPort,
                                !.state = state, !.before = World, !.parsed = parsed]
       IN  IF ~CanLoad(stateFile)
           THEN Finish(i, [r EXCEPT !.state = EmptyState], "CorruptState", r.eff)
           ELSE IF KeyInUse(state, parsed.key)
           THEN Finish(i, r, "AlreadyInUse", r.eff)
           ELSE /\ inv' = [inv EXCEPT ![i] = [r EXCEPT !.pc = "check"]]
                /\ done' = <<>>

\* startServer, lines 612-617: checkCloudflared
CheckCloudflared(i) ==
    /\ inv[i].pc = "check"
    /\ UNCHANGED <<stateFile, configs, cpTunnels, nextPid, procKind, alive, signalled>>
    /\ \E installed \in BOOLEAN :
         LET r == inv[i]
             eff == [r.eff EXCEPT !.cmds = @ \cup {"which"},
                                  !.failed = @ \cup (IF installed THEN {} ELSE {"which"})]
         IN  /\ Outcome(<<installed>>)
             /\ IF installed
                THEN /\ inv' = [inv EXCEPT ![i] = [r EXCEPT !.pc = "port", !.eff = eff]]
                     /\ UNCHANGED done
                ELSE Finish(i, r, "DependencyMissing", eff)

TunnelNameFor(dedicated, key) ==
    IF dedicated THEN key \o "-tunnel" ELSE MANAGED_TUNNEL_NAME

\* a start that asks the allocator even when an external port is given
PortFor_Allocated(externalPort, state) == getNextAvailablePort(state)

\* startServer, lines 624-632: the external port when given, else the allocator's
PortFor(externalPort, state) ==
    IF externalPort # NoPort THEN externalPort ELSE getNextAvailablePort(state)

\* startServer, lines 619-664: take the external port, or allocate one and spawn
ResolvePort(i) ==
    /\ inv[i].pc = "port"
    /\ UNCHANGED <<stateFile, configs, cpTunnels, signalled, faults, done>>
    /\ LET r == inv[i]
           next == IF r.dedicated THEN "dedCreate" ELSE "ensure"
           tunnelName == TunnelNameFor(r.dedicated, r.parsed.key)
       IN  IF r.externalPort # NoPort
           THEN /\ inv' = [inv EXCEPT ![i] =
                     [r EXCEPT !.pc = next, !.port = PortFor(r.externalPort, r.state),
                               !.serverType = "external", !.serverPid = 0,
                               !.tunnelName = tunnelName]]
                /\ UNCHANGED <<nextPid, procKind, alive>>
           ELSE /\ Spawn("server")
                /\ inv' = [inv EXCEPT ![i] =
                     [r EXCEPT !.pc = next, !.port = PortFor(r.externalPort, r.state),
                               !.serverType = DetectedType, !.serverPid = nextPid,
                               !.tunnelName = tunnelName,
                               !.eff.spawned = @ \cup {nextPid}]]

\* a failure branch that exits without signalling the server
RollbackPids_None(serverPid) == {}

\* the pids the failure branch of the dedicated tunnel creation signals
RollbackPids(serverPid) == {serverPid}

\* startServer, lines 668-675: createTunnel, and the rollback when it fails
DedCreate(i) ==
    /\ inv[i].pc = "dedCreate"
    /\ UNCHANGED <<stateFile, configs, nextPid, procKind>>
    /\ \E createOk \in BOOLEAN, listOk \in BOOLEAN :
         LET r == inv[i]
             tunnelId == createTunnel(cpTunnels, r.tunnelName, createOk, listOk)
             cmds == r.eff.cmds \cup {"create"} \cup
                     (IF CanCreate(cpTunnels, r.tunnelName, createOk) THEN {"list"} ELSE {})
         IN  /\ Outcome(IF CanCreate(cpTunnels, r.tunnelName, createOk)
                         THEN <<createOk, listOk>> ELSE <<createOk>>)
             /\ cpTunnels' = AfterCreate(cpTunnels, r.tunnelName, createOk)
             /\ IF tunnelId = NoId
                THEN /\ Kill(RollbackPids(r.serverPid))
                     /\ Finish(i, r, "TunnelProvisionError",
                               [r.eff EXCEPT !.cmds = cmds,
                                             !.failed = @ \cup {"createTunnel"},
                                             !.signals = @ \cup RollbackPids(r.serverPid)])
                ELSE /\ inv' = [inv EXCEPT ![i] =
                          [r EXCEPT !.pc = "dedConfig", !.tunnelId = tunnelId,
                                    !.eff.cmds = cmds]]
                     /\ UNCHANGED <<alive, signalled, done>>

\* startServer, lines 677-693: write the dedicated routing config
DedWriteConfig(i) ==
    /\ inv[i].pc = "dedConfig"
    /\ UNCHANGED <<stateFile, cpTunnels, nextPid, procKind, alive, signalled, faults, done>>
    /\ LET r == inv[i]
           path == DedicatedConfigPath(r.parsed.key)
       IN  /\ configs' = writeTunnelConfig(configs,
                            DedicatedConfig(r.tunnelId, r.parsed.hostname, r.port), path)
           /\ inv' = [inv EXCEPT ![i] =
                  [r EXCEPT !.pc = "dedSpawn", !.eff.cfg = @ \cup {path}]]

\* startServer, lines 695-707: spawn the controller, record the tunnel
DedSpawn(i) ==
    /\ inv[i].pc = "dedSpawn"
    /\ UNCHANGED <<stateFile, configs, cpTunnels, signalled, faults, done>>
    /\ Spawn("dedicated")
    /\ LET r == inv[i]
           tunnel == TunnelRecord(r.tunnelName, r.tunnelId, nextPid,
                                  DedicatedConfigPath(r.parsed.key))
       IN  inv' = [inv EXCEPT ![i] =
               [r EXCEPT !.pc = "route", !.state.tunnels = Put(@, tunnel),
                         !.eff.spawned = @ \cup {nextPid},
                         !.eff.cmds = @ \cup {"run"}]]

\* ensureManagedTunnel, lines 458-474, and startServer, lines 712-728
EnsureManaged(i) ==
    /\ inv[i].pc = "ensure"
    /\ UNCHANGED <<stateFile, configs, nextPid, procKind, alive, signalled>>
    /\ \E listOk \in BOOLEAN, createOk \in BOOLEAN, listOk2 \in BOOLEAN :
         LET r == inv[i]
             found == getTunnelId(cpTunnels, MANAGED_TUNNEL_NAME, listOk)
             newTunnelId == createTunnel(cpTunnels, MANAGED_TUNNEL_NAME, createOk, listOk2)
             tunnelId == IF found # NoId THEN found ELSE newTunnelId
             cmds == r.eff.cmds \cup {"list"} \cup
                     (IF found = NoId THEN {"create"} ELSE {})
             server == ServerRecord(r.parsed, r.port, r.serverPid, r.serverType,
                                    "managed", r.tunnelName)
         IN  /\ Outcome(IF found # NoId THEN <<listOk>>
                         ELSE IF CanCreate(cpTunnels, MANAGED_TUNNEL_NAME, createOk)
                         THEN <<listOk, createOk, listOk2>>
                         ELSE <<listOk, createOk>>)
             /\ cpTunnels' = IF found # NoId THEN cpTunnels
                             ELSE AfterCreate(cpTunnels, MANAGED_TUNNEL_NAME, createOk)
             /\ IF tunnelId = NoId
                THEN Finish(i, r, "TunnelProvisionError",
                            [r.eff EXCEPT !.cmds = cmds,
                                          !.failed = @ \cup {"createTunnel"}])
                ELSE /\ inv' = [inv EXCEPT ![i] =
                          [r EXCEPT !.pc = "mgdKill", !.ret = "route",
                                    !.tunnelId = tunnelId,
                                    !.state.servers = Put(@, server),
                                    !.eff.cmds = cmds]]
                     /\ UNCHANGED done

----------------------------------------------------------------------------
(* restartManagedTunnel, shared by start and stop *)

\* a restart that signals no one
OldControllerPids_None(state) == {}

\* the pid restartManagedTunnel signals: that of the record under the managed name
OldControllerPids(state) ==
    IF Has(state.tunnels, MANAGED_TUNNEL_NAME)
       /\ Get(state.tunnels, MANAGED_TUNNEL_NAME).pid # 0
    THEN {Get(state.tunnels, MANAGED_TUNNEL_NAME).pid}
    ELSE {}

\* restartManagedTunnel, lines 551-560
MgdKill(i) ==
    /\ inv[i].pc = "mgdKill"
    /\ UNCHANGED <<stateFile, configs, cpTunnels, nextPid, procKind, faults, done>>
    /\ LET r == inv[i]
           ps == OldControllerPids(r.state)
       IN  /\ Kill(ps)
           /\ inv' = [inv EXCEPT ![i] =
                  [r EXCEPT !.pc = AfterKill(ps, "mgdConfig"), !.eff.signals = @ \cup ps,
                            !.eff.failed = @ \cup KillFailed(ps)]]

\* startManagedTunnel, lines 531-533
MgdWriteConfig(i) ==
    /\ inv[i].pc = "mgdConfig"
    /\ UNCHANGED <<stateFile, cpTunnels, nextPid, procKind, alive, signalled, faults, done>>
    /\ LET r == inv[i]
       IN  /\ configs' = writeTunnelConfig(configs,
                            generateTunnelConfig(r.state, r.tunnelId), MANAGED_CONFIG_PATH)
           /\ inv' = [inv EXCEPT ![i] =
                  [r EXCEPT !.pc = "mgdSpawn", !.eff.cfg = @ \cup {MANAGED_CONFIG_PATH}]]

\* startManagedTunnel, lines 537-544, and restartManagedTunnel, lines 566-571
MgdSpawn(i) ==
    /\ inv[i].pc = "mgdSpawn"
    /\ UNCHANGED <<stateFile, configs, cpTunnels, signalled, faults, done>>
    /\ Spawn("managed")
    /\ LET r == inv[i]
           tunnel == TunnelRecord(MANAGED_TUNNEL_NAME, r.tunnelId, nextPid,
                                  MANAGED_CONFIG_PATH)
       IN  inv' = [inv EXCEPT ![i] =
               [r EXCEPT !.pc = "mgdSave", !.state.tunnels = Put(@, tunnel),
                         !.eff.spawned = @ \cup {nextPid},
                         !.eff.cmds = @ \cup {"run"}]]

\* restartManagedTunnel, line 573: saveState
MgdSave(i) ==
    /\ inv[i].pc = "mgdSave"
    /\ UNCHANGED <<configs, cpTunnels, nextPid, procKind, alive, signalled, faults, done>>
    /\ LET r == inv[i]
       IN  /\ stateFile' = Saved(r.state)
           /\ inv' = [inv EXCEPT ![i] =
                  [r EXCEPT !.pc = r.ret, !.eff.saves = @ + 1]]

\* a routing step whose failure ends the command
RouteDNS_Fatal(i) ==
    /\ inv[i].pc = "route"
    /\ UNCHANGED <<stateFile, configs, cpTunnels, nextPid, procKind, alive, signalled>>
    /\ \E routed \in BOOLEAN :
         LET eff == [inv[i].eff EXCEPT !.cmds = @ \cup {"route"},
                                      !.failed = @ \cup (IF routed THEN {} ELSE {"route"})]
         IN  /\ Outcome(<<routed>>)
             /\ IF routed
                THEN /\ inv' = [inv EXCEPT ![i] = [inv[i] EXCEPT !.pc = "save", !.eff = eff]]
                     /\ UNCHANGED done
                ELSE Finish(i, inv[i], "RoutingError", eff)

\* routeHostnameToDNS, lines 579-587: a failure is only a warning
RouteDNS(i) ==
    /\ inv[i].pc = "route"
    /\ UNCHANGED <<stateFile, configs, cpTunnels, nextPid, procKind, alive, signalled, done>>
    /\ \E routed \in BOOLEAN :
         /\ Outcome(<<routed>>)
         /\ inv' = [inv EXCEPT ![i] =
                [inv[i] EXCEPT !.pc = "save",
                               !.eff.cmds = @ \cup {"route"},
                               !.eff.failed = @ \cup (IF routed THEN {} ELSE {"route"})]]

\* startServer, lines 737-764: commit the server record, save, emit the result
StartSave(i) ==
    /\ inv[i].pc = "save"
    /\ inv[i].op = "start"
    /\ UNCHANGED <<configs, cpTunnels, nextPid, procKind, alive, signalled, faults>>
    /\ LET r == inv[i]
           server == ServerRecord(r.parsed, r.port, r.serverPid, r.serverType,
                                  IF r.dedicated THEN "dedicated" ELSE "managed",
                                  r.tunnelName)
           state == [r.state EXCEPT !.servers = Put(@, server)]
       IN  /\ stateFile' = Saved(state)
           /\ Finish(i, r, "ok", [r.eff EXCEPT !.saves = @ + 1])

----------------------------------------------------------------------------
(* stop *)

\* the key of the first entry among those at the given positions, null when none
\* a pick that falls back on the first entry when no position is given
FirstKey_Any(entries, found) ==
    IF Len(entries) = 0 THEN NoId
    ELSE IF found = {} THEN entries[1].key
    ELSE entries[CHOOSE j \in found : \A k \in found : j <= k].key

FirstKey(entries, found) ==
    IF found = {} THEN NoId
    ELSE entries[CHOOSE j \in found : \A k \in found : j <= k].key

\* a lookup that tries the subdomain tier before the hostname tier
findServerKey_SubdomainFirst(state, input) ==
    LET parsed == ParsedInputs[input]
        servers == state.servers
        byHostname == {j \in 1..Len(servers) :
                          \/ servers[j].hostname = parsed.hostname
                          \/ servers[j].hostname = input}
        bySubdomain == {j \in 1..Len(servers) :
                           \/ servers[j].subdomain = input
                           \/ servers[j].key = input}
    IN  IF Has(servers, parsed.key) THEN parsed.key
        ELSE IF FirstKey(servers, bySubdomain) # NoId
        THEN FirstKey(servers, bySubdomain)
        ELSE FirstKey(servers, byHostname)

findServerKey(state, input) ==
    LET parsed == ParsedInputs[input]
        servers == state.servers
        byHostname == {j \in 1..Len(servers) :
                          \/ servers[j].hostname = parsed.hostname
                          \/ servers[j].hostname = input}
        bySubdomain == {j \in 1..Len(servers) :
                           \/ servers[j].subdomain = input
                           \/ servers[j].key = input}
    IN  IF Has(servers, parsed.key) THEN parsed.key
        ELSE IF FirstKey(servers, byHostname) # NoId
        THEN FirstKey(servers, byHostname)
        ELSE FirstKey(servers, bySubdomain)

\* stopServer, lines 798-806: load, resolve the server, fail when there is none
StopLoad(i, hostnameInput) ==
    /\ inv[i].pc = "idle"
    /\ UNCHANGED <<stateFile, configs, cpTunnels, nextPid, procKind, alive, signalled, faults>>
    /\ LET state == loadState
           serverKey == findServerKey(state, hostnameInput)
           r == [IdleInv EXCEPT !.op = "stop", !.input = hostnameInput,
                                !.state = state, !.before = World,
                                !.parsed = ParsedInputs[hostnameInput]]
       IN  IF ~CanLoad(stateFile)
           THEN Finish(i, [r EXCEPT !.state = EmptyState], "CorruptState", r.eff)
           ELSE IF serverKey = NoId
           THEN Finish(i, r, "NotFound", r.eff)
           ELSE /\ inv' = [inv EXCEPT ![i] =
                       [r EXCEPT !.pc = "stopKill",
                                 !.server = Get(state.servers, serverKey)]]
                /\ done' = <<>>

\* the pids stop signals for the server process: none for the sentinel
ServerPids(server) == IF server.pid > 0 THEN {server.pid} ELSE {}

\* stopServer, lines 808-821 and 835-841: signal the server, drop its record
StopKillServer(i) ==
    /\ inv[i].pc = "stopKill"
    /\ UNCHANGED <<stateFile, configs, cpTunnels, nextPid, procKind, faults, done>>
    /\ LET r == inv[i]
           ps == ServerPids(r.server)
           state == [r.state EXCEPT !.servers = Del(@, r.server.key)]
           restart == Has(state.tunnels, MANAGED_TUNNEL_NAME)
       IN  /\ Kill(ps)
           /\ inv' = [inv EXCEPT ![i] =
                  [r EXCEPT !.state = state, !.eff.signals = @ \cup ps,
                            !.eff.failed = @ \cup KillFailed(ps),
                            !.ret = "save",
                            !.tunnelId = IF r.server.tunnelMode # "dedicated" /\ restart
                                         THEN Get(state.tunnels, MANAGED_TUNNEL_NAME).id
                                         ELSE NoId,
                            !.pc = AfterKill(ps,
                                     IF r.server.tunnelMode = "dedicated" THEN "stopDed"
                                     ELSE IF restart THEN "mgdKill" ELSE "save")]]

\* the pid stop signals for a dedicated tunnel: that of the record under its name
TunnelPids(state, tunnelName) ==
    IF Has(state.tunnels, tunnelName) /\ Get(state.tunnels, tunnelName).pid # 0
    THEN {Get(state.tunnels, tunnelName).pid}
    ELSE {}

\* a dedicated stop that signals the controller and keeps its record
StopDedicated_KeepsRecord(i) ==
    /\ inv[i].pc = "stopDed"
    /\ UNCHANGED <<stateFile, configs, cpTunnels, nextPid, procKind, faults, done>>
    /\ LET r == inv[i]
           ps == TunnelPids(r.state, r.server.tunnelName)
       IN  /\ Kill(ps)
           /\ inv' = [inv EXCEPT ![i] =
                  [r EXCEPT !.pc = AfterKill(ps, "save"), !.eff.signals = @ \cup ps,
                            !.eff.failed = @ \cup KillFailed(ps)]]

\* stopServer, lines 824-834: signal the dedicated controller, drop its record
StopDedicated(i) ==
    /\ inv[i].pc = "stopDed"
    /\ UNCHANGED <<stateFile, configs, cpTunnels, nextPid, procKind, faults, done>>
    /\ LET r == inv[i]
           ps == TunnelPids(r.state, r.server.tunnelName)
       IN  /\ Kill(ps)
           /\ inv' = [inv EXCEPT ![i] =
                  [r EXCEPT !.pc = AfterKill(ps, "save"), !.eff.signals = @ \cup ps,
                            !.eff.failed = @ \cup KillFailed(ps),
                            !.state.tunnels = Del(@, r.server.tunnelName)]]

\* a stop whose last save never returns
StopSave_Hangs(i) ==
    /\ inv[i].pc = "save"
    /\ inv[i].op = "stop"
    /\ UNCHANGED vars

\* stopServer, lines 843-848: save, emit the result
StopSave(i) ==
    /\ inv[i].pc = "save"
    /\ inv[i].op = "stop"
    /\ UNCHANGED <<configs, cpTunnels, nextPid, procKind, alive, signalled, faults>>
    /\ LET r == inv[i]
       IN  /\ stateFile' = Saved(r.state)
           /\ Finish(i, r, "ok", [r.eff EXCEPT !.saves = @ + 1])

\* the command's process dies between two steps, within the budget of failures
Crash(i) ==
    /\ inv[i].pc # "idle"
    /\ faults < MaxFaults
    /\ faults' = faults + 1
    /\ UNCHANGED <<stateFile, configs, cpTunnels, nextPid, procKind, alive, signalled, done>>
    /\ inv' = [inv EXCEPT ![i] = IdleInv]

\* the state file is left unparsable (an editor, a torn write), within the
\* budget of failures
Corrupt ==
    /\ stateFile # CorruptFile
    /\ faults < MaxFaults
    /\ faults' = faults + 1
    /\ stateFile' = CorruptFile
    /\ UNCHANGED <<configs, cpTunnels, nextPid, procKind, alive, signalled, inv, done>>

\* a spawned process ends by itself, within the budget of failures
Exit(p) ==
    /\ p \in alive
    /\ faults < MaxFaults
    /\ faults' = faults + 1
    /\ alive' = alive \ {p}
    /\ UNCHANGED <<stateFile, configs, cpTunnels, nextPid, procKind, signalled, inv, done>>

----------------------------------------------------------------------------
(* Specifications *)

Sequential == {1}      \* one command at a time: the operator's discipline

Begin(i) ==
    \/ \E h \in HostInputs, d \in BOOLEAN, e \in ExtPorts \cup {NoPort} : StartLoad(i, h, d, e)
    \/ \E h \in HostInputs : StopLoad(i, h)

StartStep(i) ==
    \/ CheckCloudflared(i)
    \/ ResolvePort(i)
    \/ DedCreate(i)
    \/ DedWriteConfig(i)
    \/ DedSpawn(i)
    \/ EnsureManaged(i)
    \/ MgdKill(i)
    \/ MgdWriteConfig(i)
    \/ MgdSpawn(i)
    \/ MgdSave(i)
    \/ RouteDNS(i)
    \/ StartSave(i)

StopStep(i) ==
    \/ StopKillServer(i)
    \/ StopDedicated(i)
    \/ StopSave(i)

Step(i) == StartStep(i) \/ StopStep(i)

Next == \E i \in Sequential : Begin(i) \/ Step(i)

Spec == Init /\ [][Next]_vars

NextCrash == \E i \in Sequential : Begin(i) \/ Step(i) \/ Crash(i)

SpecCrash == Init /\ [][NextCrash]_vars

NextCorrupt ==
    \/ \E i \in Sequential : Begin(i) \/ Step(i)
    \/ Corrupt

SpecCorrupt == Init /\ [][NextCorrupt]_vars

NextExit ==
    \/ \E i \in Sequential : Begin(i) \/ Step(i)
    \/ \E p \in DOMAIN procKind : Exit(p)

SpecExit == Init /\ [][NextExit]_vars

\* two start commands at a time, for different keys, without any lock on the
\* state file: each terminal starts its own hostname
ConcurrentHost == [i \in Invocations |-> IF i = 1 THEN "x" ELSE "x.b.io"]

BeginStart(i) ==
    \E d \in BOOLEAN, e \in ExtPorts \cup {NoPort} : StartLoad(i, ConcurrentHost[i], d, e)

NextConcurrent == \E i \in Invocations : BeginStart(i) \/ StartStep(i)

SpecConcurrent == Init /\ [][NextConcurrent]_vars

\* one command at a time, begun while the pids it may spawn (two for a start
\* that allocates its port, else one) are within MaxPid, and run to its end:
\* the process is single-threaded and each external command returns
BeginLive(i) ==
    \/ \E h \in HostInputs, d \in BOOLEAN, e \in ExtPorts \cup {NoPort} :
          /\ nextPid + (IF e = NoPort THEN 1 ELSE 0) <= MaxPid
          /\ StartLoad(i, h, d, e)
    \/ \E h \in HostInputs :
          /\ nextPid <= MaxPid
          /\ StopLoad(i, h)

NextLive == \E i \in Sequential : BeginLive(i) \/ Step(i)

SpecLive == Init /\ [][NextLive]_vars /\ \A i \in Sequential : WF_vars(Step(i))

\* two start commands at a time, each leaving the port to the allocator
BeginAllocating(i) ==
    \E d \in BOOLEAN : StartLoad(i, ConcurrentHost[i], d, NoPort)

NextRace == \E i \in Invocations : BeginAllocating(i) \/ StartStep(i)

SpecRace == Init /\ [][NextRace]_vars

----------------------------------------------------------------------------
(* The pure functions, applied to any persisted snapshot and any input *)

\* the (mode, tunnel name) pairs a record can have been saved with: managed
\* under the present or an earlier managed tunnel name, or dedicated
SnapshotRecords ==
    {ServerRecord(ParsedInputs[h], p, 0, "external", "managed", n) :
        h \in SnapshotHosts, p \in SnapshotPorts,
        n \in {MANAGED_TUNNEL_NAME, OLD_TUNNEL_NAME}}
    \cup {ServerRecord(ParsedInputs[h], p, 0, "external", "dedicated",
                       TunnelNameFor(TRUE, ParsedInputs[h].key)) :
            h \in SnapshotHosts, p \in SnapshotPorts}

\* the servers objects of at most n records: keys are distinct, any order
RECURSIVE SnapshotsOf(_)
SnapshotsOf(n) ==
    IF n = 0 THEN {<<>>}
    ELSE LET shorter == SnapshotsOf(n - 1)
         IN  shorter \cup
             UNION {{Append(s, r) : r \in {q \in SnapshotRecords : ~Has(s, q.key)}} :
                        s \in shorter}

\* the tunnels object that goes with a servers object: a record per tunnel name
RECURSIVE TunnelsOf(_)
TunnelsOf(servers) ==
    IF Len(servers) = 0 THEN <<>>
    ELSE LET name == servers[Len(servers)].tunnelName
             rest == TunnelsOf(SubSeq(servers, 1, Len(servers) - 1))
         IN  IF Has(rest, name) THEN rest
             ELSE Append(rest, TunnelRecord(name, TunnelIdOf(name), Len(servers),
                                            IF name = MANAGED_TUNNEL_NAME
                                            THEN MANAGED_CONFIG_PATH
                                            ELSE DedicatedConfigPath(servers[Len(servers)].key)))

\* state files a save has written: servers alone, or servers with their tunnels
SnapshotFiles ==
    {[exists |-> TRUE, parses |-> TRUE, servers |-> s, tunnels |-> <<>>] :
        s \in SnapshotsOf(MaxSnapshot)}
    \cup {[exists |-> TRUE, parses |-> TRUE, servers |-> s, tunnels |-> TunnelsOf(s)] :
            s \in SnapshotsOf(MaxSnapshot - 1)}

InitFn ==
    /\ stateFile \in {NoFile} \cup SnapshotFiles
    /\ configs = [p \in {} |-> 0]
    /\ cpTunnels = {}
    /\ nextPid = 1
    /\ faults = 0
    /\ procKind = [p \in {} |-> "none"]
    /\ alive = {}
    /\ signalled = {}
    /\ inv = [i \in Invocations |-> IdleInv]
    /\ done = <<>>

\* startManagedTunnel, lines 531-533: build the managed config of the loaded state
Generate(i) ==
    /\ inv[i].pc = "idle"
    /\ UNCHANGED <<stateFile, cpTunnels, nextPid, procKind, alive, signalled, faults, done>>
    /\ LET state == loadState
       IN  /\ configs' = writeTunnelConfig(configs,
                            generateTunnelConfig(state, TunnelIdOf(MANAGED_TUNNEL_NAME)),
                            MANAGED_CONFIG_PATH)
           /\ inv' = [inv EXCEPT ![i] =
                  [IdleInv EXCEPT !.pc = "generated", !.state = state]]

\* startServer, line 632: allocate a port for the loaded state
Allocate(i) ==
    /\ inv[i].pc = "idle"
    /\ UNCHANGED <<stateFile, configs, cpTunnels, nextPid, procKind, alive, signalled, faults, done>>
    /\ LET state == loadState
       IN  inv' = [inv EXCEPT ![i] =
               [IdleInv EXCEPT !.pc = "allocated", !.state = state,
                               !.port = getNextAvailablePort(state)]]

\* startServer, line 603: parse the hostname input
Parse(i, hostnameInput) ==
    /\ inv[i].pc = "idle"
    /\ UNCHANGED <<stateFile, configs, cpTunnels, nextPid, procKind, alive, signalled, faults, done>>
    /\ inv' = [inv EXCEPT ![i] =
           [IdleInv EXCEPT !.pc = "parsed", !.input = hostnameInput,
                           !.parsed = parseHostname(hostnameInput)]]

\* saveState(loadState()), lines 171-201
RoundTrip(i) ==
    /\ inv[i].pc = "idle"
    /\ UNCHANGED <<configs, cpTunnels, nextPid, procKind, alive, signalled, faults, done>>
    /\ LET state == loadState
       IN  /\ stateFile' = Saved(state)
           /\ inv' = [inv EXCEPT ![i] =
                  [IdleInv EXCEPT !.pc = "saved", !.state = state, !.before = World]]

NextFn ==
    \E i \in Sequential :
        \/ Generate(i)
        \/ Allocate(i)
        \/ RoundTrip(i)
        \/ \E h \in ParseInputs : Parse(i, h)

SpecFn == InitFn /\ [][NextFn]_vars

----------------------------------------------------------------------------
(* Properties *)

Idle == \A i \in Invocations : inv[i].pc = "idle"

Completed(outcome) == done # <<>> /\ done[1].outcome = outcome

ServersOf(doc) == {doc.servers[j] : j \in 1..Len(doc.servers)}

HostRules(config) ==
    {config.ingress[j] : j \in {k \in 1..Len(config.ingress) :
                                    "hostname" \in DOMAIN config.ingress[k]}}

\* C1: no termination signal is ever sent to the sentinel pid 0, whatever the
\* sequence of start and stop commands and whichever way a start fails.
C1_SentinelNeverSignalled == 0 \notin signalled

\* C2: when a start aborts because tunnel provisioning failed, in dedicated or
\* in managed mode, every server process it spawned has been sent a signal.
C2_ProvisionFailureRollsBack ==
    Completed("TunnelProvisionError") =>
        /\ done[1].eff.spawned \subseteq signalled
        /\ done[1].eff.spawned \cap alive = {}

\* C3: a dedicated start without external port whose tunnel creation fails
\* signals the server process it spawned, fails, and leaves the persisted
\* state as it was before the command; it does not go on after the failure.
C3_DedicatedCreateFailure ==
    /\ \A i \in Invocations : "createTunnel" \notin inv[i].eff.failed
    /\ (/\ done # <<>>
        /\ done[1].op = "start" /\ done[1].dedicated /\ done[1].externalPort = NoPort
        /\ "createTunnel" \in done[1].eff.failed)
       => /\ done[1].outcome = "TunnelProvisionError"
          /\ Cardinality(done[1].eff.spawned) = 1
          /\ \A p \in done[1].eff.spawned :
                procKind[p] = "server" /\ p \in signalled /\ p \notin alive
          /\ done[1].after.file = done[1].before.file
          /\ stateFile = done[1].before.file

C3_Witness ==
    /\ Completed("TunnelProvisionError")
    /\ done[1].dedicated /\ done[1].externalPort = NoPort
    /\ done[1].eff.spawned # {}
    /\ done[1].before.file.servers # <<>>

\* C4: no two server records of the persisted state have the same port.
C4_PortsUnique ==
    \A j, k \in 1..Len(stateFile.servers) :
        j # k => stateFile.servers[j].port # stateFile.servers[k].port

\* C5: no two server records of the persisted state have the same hostname.
C5_HostnamesUnique ==
    \A j, k \in 1..Len(stateFile.servers) :
        j # k => stateFile.servers[j].hostname # stateFile.servers[k].hostname

ManagedConfigRules ==
    IF MANAGED_CONFIG_PATH \in DOMAIN configs
    THEN HostRules(configs[MANAGED_CONFIG_PATH]) ELSE {}

ManagedPairs(doc) ==
    {[hostname |-> server.hostname,
      service |-> "http://localhost:" \o ToString(server.port)] :
        server \in {sv \in ServersOf(doc) : sv.tunnelMode = "managed"}}

\* C6: after every successful start or stop, the hostname rules of the managed
\* routing config are exactly the (hostname, port) pairs of the managed-mode
\* servers of the persisted state.
C6_ManagedConfigMatchesState ==
    Completed("ok") => ManagedConfigRules = ManagedPairs(stateFile)

\* C7: when a command has crashed after any of its steps, no routing config on
\* disk holds a hostname rule for a server without a record in the persisted state.
C7_ConfigsWithinPersistedState ==
    Idle => \A p \in DOMAIN configs : \A rule \in HostRules(configs[p]) :
                \E server \in ServersOf(stateFile) : server.hostname = rule.hostname

\* C8: a stop that follows a successful stop of the same input fails NotFound,
\* changes nothing in the persisted state and signals no process.
C8_SecondStopNotFound ==
    [][\A h \in HostInputs :
          (/\ Completed("ok") /\ done[1].op = "stop" /\ done[1].input = h
           /\ StopLoad(1, h))
          => (/\ done' # <<>> /\ done'[1].outcome = "NotFound"
              /\ stateFile' = stateFile /\ signalled' = signalled)]_vars

\* C9: a start whose key already has a server record fails AlreadyInUse and
\* changes nothing: no spawn, no control-plane command, no config written, no
\* signal, the persisted state as before; no start goes on with a key in use.
C9_AlreadyInUseNoEffect ==
    /\ \A i \in Invocations :
          inv[i].op = "start" => ~Has(inv[i].before.file.servers, inv[i].parsed.key)
    /\ (done # <<>> /\ done[1].op = "start"
            /\ Has(done[1].before.file.servers, done[1].key))
       => /\ done[1].outcome = "AlreadyInUse"
          /\ done[1].eff = NoEff
          /\ done[1].after = done[1].before
          /\ stateFile = done[1].before.file

C9_Witness ==
    /\ Completed("AlreadyInUse")
    /\ Has(stateFile.servers, done[1].key)
    /\ configs # <<>>

\* C10: every dedicated-mode server record has the tunnel name <key>-tunnel,
\* shares it with no other server record, and it is not the managed tunnel's name.
C10_DedicatedTunnelNameOwn ==
    \A server \in ServersOf(stateFile) :
        server.tunnelMode = "dedicated" =>
            /\ server.tunnelName = server.key \o "-tunnel"
            /\ \A other \in ServersOf(stateFile) :
                  other.key # server.key => other.tunnelName # server.tunnelName
            /\ server.tunnelName # MANAGED_TUNNEL_NAME

\* the ingress list is one rule per given server, in their order, then the
\* catch-all, which is its only element without a hostname
IngressOf(ingress, servers) ==
    /\ Len(ingress) = Len(servers) + 1
    /\ \A k \in 1..Len(servers) :
          ingress[k] = [hostname |-> servers[k].hostname,
                        service |-> "http://localhost:" \o ToString(servers[k].port)]
    /\ ingress[Len(ingress)] = [service |-> "http_status:404"]
    /\ \A k \in 1..Len(ingress) : "hostname" \in DOMAIN ingress[k] <=> k < Len(ingress)

\* C11 (as stated): for every snapshot, whatever the tunnel names of its
\* records, the generated ingress list is one rule per managed-mode server, in
\* the snapshot's order, then the catch-all as last and only hostname-less rule.
C11_IngressPerManagedServer ==
    \A i \in Invocations : inv[i].pc = "generated" =>
        IngressOf(configs[MANAGED_CONFIG_PATH].ingress,
                  SelectSeq(inv[i].state.servers, LAMBDA sv : sv.tunnelMode = "managed"))

\* C11 (amended): for every snapshot the generated ingress list is one rule per
\* managed-mode server whose tunnel name is the managed tunnel's name, in the
\* snapshot's order, then the catch-all as last and only hostname-less rule.
C11_IngressPerManagedServerOfTunnel ==
    \A i \in Invocations : inv[i].pc = "generated" =>
        IngressOf(configs[MANAGED_CONFIG_PATH].ingress,
                  SelectSeq(inv[i].state.servers,
                            LAMBDA sv : sv.tunnelMode = "managed"
                                        /\ sv.tunnelName = MANAGED_TUNNEL_NAME))

C11_Witness ==
    /\ inv[1].pc = "generated"
    /\ Len(inv[1].state.servers) = 2
    /\ inv[1].state.servers[1].tunnelMode = "dedicated"
    /\ inv[1].state.servers[2].tunnelMode = "managed"
    /\ Len(configs[MANAGED_CONFIG_PATH].ingress) = 2

\* positions of the records a lookup tier matches
UnderKey(servers, input) ==
    {j \in 1..Len(servers) : servers[j].key = ParsedInputs[input].key}

WithHostname(servers, input) ==
    {j \in 1..Len(servers) : servers[j].hostname \in {ParsedInputs[input].hostname, input}}

WithSubdomainOrKey(servers, input) ==
    {j \in 1..Len(servers) : servers[j].subdomain = input \/ servers[j].key = input}

Lowest(positions) == {j \in positions : \A k \in positions : j <= k}

\* the position the three tiers resolve: empty when no tier matches
Resolved(servers, input) ==
    IF UnderKey(servers, input) # {} THEN UnderKey(servers, input)
    ELSE IF WithHostname(servers, input) # {} THEN Lowest(WithHostname(servers, input))
    ELSE Lowest(WithSubdomainOrKey(servers, input))

\* C12: the record a stop works on is the one under the parsed key, else the
\* first with the parsed hostname or the raw input as hostname, else the first
\* with the raw input as subdomain or key; a stop ends NotFound exactly when
\* no tier matches.
C12_StopLookupTiers ==
    /\ \A i \in Invocations : inv[i].op = "stop" =>
          \E j \in Resolved(inv[i].before.file.servers, inv[i].input) :
              inv[i].server = inv[i].before.file.servers[j]
    /\ (done # <<>> /\ done[1].op = "stop") =>
          IF Resolved(done[1].before.file.servers, done[1].input) = {}
          THEN done[1].outcome = "NotFound"
          ELSE /\ done[1].outcome = "ok"
               /\ \E j \in Resolved(done[1].before.file.servers, done[1].input) :
                     done[1].server = done[1].before.file.servers[j]

\* the hostname tier picks a record although an earlier one matches the
\* subdomain tier
C12_Witness ==
    /\ inv[1].op = "stop"
    /\ UnderKey(inv[1].before.file.servers, inv[1].input) = {}
    /\ \E j \in Lowest(WithHostname(inv[1].before.file.servers, inv[1].input)) :
          /\ inv[1].server = inv[1].before.file.servers[j]
          /\ \E k \in WithSubdomainOrKey(inv[1].before.file.servers, inv[1].input) : k < j

\* C13: a stop whose input matches no server record ends NotFound without any
\* effect: no signal, no config written, no controller spawned, no command
\* issued, the persisted state, the configs and the processes as before; and
\* no stop goes on with an input that matches nothing.
C13_NotFoundNoEffect ==
    /\ \A i \in Invocations : inv[i].op = "stop" =>
          \/ UnderKey(inv[i].before.file.servers, inv[i].input) # {}
          \/ WithHostname(inv[i].before.file.servers, inv[i].input) # {}
          \/ WithSubdomainOrKey(inv[i].before.file.servers, inv[i].input) # {}
    /\ (/\ done # <<>> /\ done[1].op = "stop"
        /\ UnderKey(done[1].before.file.servers, done[1].input) = {}
        /\ WithHostname(done[1].before.file.servers, done[1].input) = {}
        /\ WithSubdomainOrKey(done[1].before.file.servers, done[1].input) = {})
       => /\ done[1].outcome = "NotFound"
          /\ done[1].eff = NoEff
          /\ done[1].after = done[1].before
          /\ stateFile = done[1].before.file
          /\ configs = done[1].before.configs
          /\ signalled = done[1].before.signalled
          /\ nextPid = done[1].before.pids

\* NotFound while a managed server, its controller and its config exist
C13_Witness ==
    /\ Completed("NotFound")
    /\ Has(stateFile.tunnels, MANAGED_TUNNEL_NAME)
    /\ \E server \in ServersOf(stateFile) : server.tunnelMode = "managed"
    /\ MANAGED_CONFIG_PATH \in DOMAIN configs
    /\ alive # {}

\* C14: a start that finds the control-plane binary missing, or a state file
\* it cannot parse, ends with that failure before any mutation: nothing
\* spawned or signalled, no tunnel created, no config and no state written
\* (the state file is as the command found it, or as the corruption left it);
\* and no command goes on past either failure.
C14_AbortBeforeMutation ==
    /\ \A i \in Invocations : inv[i].pc # "idle" =>
          /\ inv[i].before.file.parses
          /\ "which" \notin inv[i].eff.failed
    /\ (/\ done # <<>> /\ done[1].op = "start"
        /\ (~done[1].before.file.parses \/ "which" \in done[1].eff.failed))
       => /\ done[1].outcome =
                 (IF done[1].before.file.parses THEN "DependencyMissing" ELSE "CorruptState")
          /\ done[1].eff.spawned = {}
          /\ done[1].eff.signals = {}
          /\ done[1].eff.cfg = {}
          /\ done[1].eff.saves = 0
          /\ done[1].eff.cmds \subseteq {"which"}
          /\ done[1].after.file \in {done[1].before.file, CorruptFile}
          /\ done[1].after.configs = done[1].before.configs
          /\ done[1].after.cp = done[1].before.cp
          /\ done[1].after.pids = done[1].before.pids
          /\ done[1].after.signalled = done[1].before.signalled

\* a start refused for a corrupt state file while spawned processes run
C14_Witness ==
    /\ Completed("CorruptState")
    /\ done[1].op = "start"
    /\ stateFile = CorruptFile
    /\ alive # {}
    /\ configs # <<>>

\* C15: a successful stop of a record whose pid is the sentinel 0 signals no
\* server process and removes the record from the persisted state; when the
\* record is managed-mode the managed config is rewritten, without the
\* record's rule, and a new managed controller is spawned.
C15_StopSentinelRecord ==
    (/\ Completed("ok") /\ done[1].op = "stop" /\ done[1].server.pid = 0)
    => /\ \A p \in done[1].eff.signals : p \in DOMAIN procKind /\ procKind[p] # "server"
       /\ ~Has(done[1].after.file.servers, done[1].server.key)
       /\ done[1].server.tunnelMode = "managed" =>
             /\ MANAGED_CONFIG_PATH \in done[1].eff.cfg
             /\ \E p \in done[1].eff.spawned : procKind[p] = "managed"
             /\ HostRules(done[1].after.configs[MANAGED_CONFIG_PATH])
                    = ManagedPairs(done[1].after.file)

\* C16: a successful start with an external port spawned no server process,
\* and the record it persisted has that port (whatever the allocator would
\* have answered), the kind external and the sentinel pid 0.
C16_ExternalPortStart ==
    (/\ Completed("ok") /\ done[1].op = "start" /\ done[1].externalPort # NoPort)
    => /\ \A p \in done[1].eff.spawned : procKind[p] # "server"
       /\ Has(done[1].after.file.servers, done[1].key)
       /\ LET server == Get(done[1].after.file.servers, done[1].key)
          IN  /\ server.port = done[1].externalPort
              /\ server.serverType = "external"
              /\ server.pid = 0

\* the external port is one the allocator would not have returned
C16_Witness ==
    /\ Completed("ok") /\ done[1].op = "start" /\ done[1].externalPort # NoPort
    /\ getNextAvailablePort(done[1].before.file) # done[1].externalPort
    /\ done[1].eff.spawned # {}

Reversed(entries) == [j \in 1..Len(entries) |-> entries[Len(entries) + 1 - j]]

\* C17: for every snapshot the allocated port is the lowest integer from the
\* base port on that no record has; it is no record's port, and the records
\* taken in the opposite order give the same port.
C17_LowestFreePort ==
    \A i \in Invocations : inv[i].pc = "allocated" =>
        LET servers == inv[i].state.servers
            used == {servers[j].port : j \in 1..Len(servers)}
        IN  /\ inv[i].port >= BASE_PORT
            /\ inv[i].port \notin used
            /\ \A p \in BASE_PORT..(inv[i].port - 1) : p \in used
            /\ getNextAvailablePort([servers |-> Reversed(servers)]) = inv[i].port

\* the base port and the next are taken, by records stored in descending order
C17_Witness ==
    /\ inv[1].pc = "allocated"
    /\ Len(inv[1].state.servers) = 2
    /\ inv[1].state.servers[1].port = BASE_PORT + 1
    /\ inv[1].state.servers[2].port = BASE_PORT
    /\ inv[1].port = BASE_PORT + 2

\* positions of the dots of a string: one less than its number of segments
Dots(s) == {k \in 1..Len(s) : SubSeq(s, k, k) = "."}

\* C18: for an input of three or more segments the parser returns the input
\* as hostname, a domain of exactly two segments and a subdomain that give the
\* input back when joined by a dot, and as key the input with a "-" in the
\* place of every ".".
C18_FullHostnameParsed ==
    \A i \in Invocations :
        (inv[i].pc = "parsed" /\ Cardinality(Dots(inv[i].input)) >= 2) =>
            LET input == inv[i].input
                parsed == inv[i].parsed
            IN  /\ parsed.hostname = input
                /\ parsed.subdomain \o "." \o parsed.domain = input
                /\ Cardinality(Dots(parsed.domain)) = 1
                /\ Len(parsed.key) = Len(input)
                /\ \A k \in 1..Len(input) :
                      SubSeq(parsed.key, k, k) =
                          (IF k \in Dots(input) THEN "-" ELSE SubSeq(input, k, k))

C18_Witness ==
    /\ inv[1].pc = "parsed"
    /\ inv[1].input = "a.b.c.d"
    /\ inv[1].parsed.subdomain = "a.b"
    /\ inv[1].parsed.domain = "c.d"
    /\ inv[1].parsed.key = "a-b-c-d"

\* C19: for an input of one or two segments the parser returns the whole input
\* as subdomain and as key, the default domain as domain, and the input, a
\* dot and the default domain as hostname.
C19_ShortInputUnderDefaultDomain ==
    \A i \in Invocations :
        (inv[i].pc = "parsed" /\ Cardinality(Dots(inv[i].input)) <= 1) =>
            /\ inv[i].parsed.subdomain = inv[i].input
            /\ inv[i].parsed.domain = DOMAIN_NAME
            /\ inv[i].parsed.hostname = inv[i].input \o "." \o DOMAIN_NAME
            /\ inv[i].parsed.key = inv[i].input

C19_Witness ==
    /\ inv[1].pc = "parsed"
    /\ inv[1].input = "x.y"
    /\ inv[1].parsed.hostname = "x.y.my.io"
    /\ inv[1].parsed.key = "x.y"

\* C20: the parser returns no result for the empty input: no parse of the
\* empty string ever completes with a (subdomain, domain, hostname, key).
C20_EmptyInputRejected ==
    \A i \in Invocations : ~(inv[i].pc = "parsed" /\ inv[i].input = "")

\* C21: a start whose DNS-routing command failed, in managed or in dedicated
\* mode, ends with success, and the state it persisted holds the server record
\* under its key and the tunnel record under its tunnel name, with the pids the
\* command recorded, as after a routing that succeeded.
C21_RoutingFailureNotFatal ==
    (/\ done # <<>> /\ done[1].op = "start" /\ "route" \in done[1].eff.failed)
    => /\ done[1].outcome = "ok"
       /\ Has(done[1].after.file.servers, done[1].key)
       /\ LET server == Get(done[1].after.file.servers, done[1].key)
              name == IF done[1].dedicated THEN done[1].key \o "-tunnel"
                      ELSE MANAGED_TUNNEL_NAME
          IN  /\ server.tunnelMode = (IF done[1].dedicated THEN "dedicated" ELSE "managed")
              /\ server.tunnelName = name
              /\ server.pid \in {p \in done[1].eff.spawned : procKind[p] = "server"} \cup
                       (IF done[1].externalPort # NoPort THEN {0} ELSE {})
              /\ Has(done[1].after.file.tunnels, name)
              /\ Get(done[1].after.file.tunnels, name).pid \in
                     {p \in done[1].eff.spawned : procKind[p] # "server"}
              /\ Get(done[1].after.file.tunnels, name).status = "running"

C21_Witness ==
    /\ Completed("ok") /\ done[1].op = "start"
    /\ "route" \in done[1].eff.failed
    /\ done[1].dedicated
    /\ done[1].before.file.servers # <<>>

\* the state file as the start command i loaded it or, once it has saved, as it
\* saved it: no other command has written the file in between
FileAsLeftBy(i) ==
    IF inv[i].eff.saves = 0 THEN inv[i].before.file ELSE Saved(inv[i].state)

\* C22: when no other command has written the state file since a start loaded
\* it, each save of that start keeps every server record the file held and
\* adds its own. (That a record is lost when two starts overlap is the
\* reachable state C22_Witness.)
C22_NoLossWithoutOverlap ==
    [][\A i \in Invocations :
          (/\ inv[i].op = "start"
           /\ stateFile = FileAsLeftBy(i)
           /\ (MgdSave(i) \/ StartSave(i)))
          => /\ \A server \in ServersOf(stateFile) : server \in ServersOf(stateFile')
             /\ \E server \in ServersOf(stateFile') : server.key = inv[i].parsed.key]_vars

\* both starts have ended, none failed, the one that saved last reported
\* success, and a running, never signalled server process has no record in
\* the persisted state
C22_Witness ==
    /\ Idle /\ faults = 0
    /\ Completed("ok") /\ done[1].op = "start"
    /\ \E p \in alive \ signalled :
          /\ procKind[p] = "server"
          /\ \A server \in ServersOf(stateFile) : server.pid # p

C24_CreateOnlyWhenAbsent ==
    /\ \A i \in Invocations :
          (inv[i].op = "start" /\ ~inv[i].dedicated /\ "create" \in inv[i].eff.cmds)
          => MANAGED_TUNNEL_NAME \notin inv[i].before.cp
    /\ (/\ done # <<>> /\ done[1].op = "start" /\ ~done[1].dedicated
        /\ "list" \in done[1].eff.cmds
        /\ MANAGED_TUNNEL_NAME \in done[1].before.cp)
       => /\ "create" \notin done[1].eff.cmds
          /\ done[1].outcome = "ok"

\* C25: a command writes the state file only as its last step: while a start
\* or stop is still running the file is as the command loaded it; the record
\* of a managed start is not in the file before its DNS routing was attempted,
\* and a managed stop has not saved before the new controller was spawned.
C25_StateWrittenLast ==
    \A i \in Invocations : inv[i].pc # "idle" =>
        /\ inv[i].eff.saves = 0
        /\ stateFile = inv[i].before.file
        /\ (inv[i].op = "start" /\ "route" \notin inv[i].eff.cmds)
              => ~Has(stateFile.servers, inv[i].parsed.key)
        /\ (inv[i].op = "stop" /\ inv[i].eff.saves > 0)
              => \E p \in inv[i].eff.spawned : procKind[p] = "managed"

\* C26: a dedicated start that has invoked the DNS-routing command has, in its
\* snapshot, the tunnel record under its tunnel name and the server record
\* under its key.
C26_DedicatedRoutesAfterCommit ==
    \A i \in Invocations :
        (inv[i].op = "start" /\ inv[i].dedicated /\ "route" \in inv[i].eff.cmds)
        => /\ Has(inv[i].state.tunnels, inv[i].tunnelName)
           /\ Has(inv[i].state.servers, inv[i].parsed.key)

\* C27: a successful stop of a dedicated-mode server has signalled the
\* controller pid recorded under the server's tunnel name and removed that
\* tunnel record, and has left the managed tunnel alone: its record (the one
\* restartManagedTunnel wrote, with the managed config path) and its config are
\* as before and its controller was not signalled.
C27_DedicatedStopFrame ==
    (/\ Completed("ok") /\ done[1].op = "stop"
     /\ done[1].server.tunnelMode = "dedicated")
    => LET before == done[1].before.file.tunnels
           after == done[1].after.file.tunnels
           name == done[1].server.tunnelName
       IN  /\ Has(before, name) => Get(before, name).pid \in done[1].eff.signals
           /\ ~Has(after, name)
           /\ (/\ Has(before, MANAGED_TUNNEL_NAME)
               /\ Get(before, MANAGED_TUNNEL_NAME).configPath = MANAGED_CONFIG_PATH) =>
                 /\ Has(after, MANAGED_TUNNEL_NAME)
                 /\ Get(after, MANAGED_TUNNEL_NAME) = Get(before, MANAGED_TUNNEL_NAME)
                 /\ Get(before, MANAGED_TUNNEL_NAME).pid \notin done[1].eff.signals
           /\ MANAGED_CONFIG_PATH \notin done[1].eff.cfg
           /\ \A p \in done[1].eff.signals : procKind[p] # "managed"

\* C28: a stop in which a signal could not be delivered (the server or the
\* controller was dead) goes on as it would have: it ends with success, the
\* server record is removed, a dedicated tunnel's record is removed, a managed
\* tunnel on record is regenerated and restarted, and the state is saved.
C28_SignalFailureNotFatal ==
    /\ \A i \in Invocations :
          (inv[i].op = "stop" /\ "kill" \in inv[i].eff.failed)
          => inv[i].pc \in {"stopDed", "mgdKill", "mgdConfig", "mgdSpawn", "mgdSave", "save"}
    /\ (/\ done # <<>> /\ done[1].op = "stop" /\ "kill" \in done[1].eff.failed)
       => /\ done[1].outcome = "ok"
          /\ ~Has(done[1].after.file.servers, done[1].server.key)
          /\ done[1].eff.saves >= 1
          /\ done[1].server.tunnelMode = "dedicated" =>
                ~Has(done[1].after.file.tunnels, done[1].server.tunnelName)
          /\ (/\ done[1].server.tunnelMode = "managed"
              /\ Has(done[1].before.file.tunnels, MANAGED_TUNNEL_NAME)) =>
                /\ MANAGED_CONFIG_PATH \in done[1].eff.cfg
                /\ \E p \in done[1].eff.spawned : procKind[p] = "managed"

\* the server process of the stopped record had ended before the stop
C28_Witness ==
    /\ Completed("ok") /\ done[1].op = "stop"
    /\ "kill" \in done[1].eff.failed
    /\ done[1].server.pid > 0
    /\ done[1].server.pid \in done[1].eff.signals

\* C29: when restartManagedTunnel is about to write the config and spawn, the
\* controller pid of the managed tunnel record, if any, has been signalled;
\* once it has spawned, the managed tunnel record holds the given tunnel id,
\* the pid of the controller just spawned and the status running, also when
\* the signal could not be delivered.
C29_RestartManagedOrder ==
    \A i \in Invocations :
        /\ (/\ inv[i].pc \in {"mgdConfig", "mgdSpawn"}
            /\ Has(inv[i].state.tunnels, MANAGED_TUNNEL_NAME)
            /\ Get(inv[i].state.tunnels, MANAGED_TUNNEL_NAME).pid # 0)
           => /\ Get(inv[i].state.tunnels, MANAGED_TUNNEL_NAME).pid \in inv[i].eff.signals
              /\ Get(inv[i].state.tunnels, MANAGED_TUNNEL_NAME).pid \in signalled
              /\ Get(inv[i].state.tunnels, MANAGED_TUNNEL_NAME).pid \notin alive
        /\ inv[i].pc = "mgdSave"
           => /\ Has(inv[i].state.tunnels, MANAGED_TUNNEL_NAME)
              /\ LET tunnel == Get(inv[i].state.tunnels, MANAGED_TUNNEL_NAME)
                 IN  /\ tunnel.id = inv[i].tunnelId
                     /\ tunnel.pid = nextPid - 1
                     /\ tunnel.pid \in inv[i].eff.spawned
                     /\ tunnel.pid \notin inv[i].eff.signals
                     /\ procKind[tunnel.pid] = "managed"
                     /\ tunnel.status = "running"

\* the old controller was dead when it was signalled; the new one is recorded
C29_Witness ==
    /\ inv[1].pc = "mgdSave"
    /\ "kill" \in inv[1].eff.failed
    /\ inv[1].eff.signals # {}
    /\ Get(inv[1].state.tunnels, MANAGED_TUNNEL_NAME).pid \in alive

\* C30: the routing config a dedicated start has written holds exactly two
\* ingress rules: the rule of the start's canonical hostname to
\* http://localhost:<port>, with the port of the server record it persists,
\* then the catch-all http_status:404 without hostname.
C30_DedicatedConfigTwoRules ==
    /\ \A i \in Invocations :
          (inv[i].op = "start" /\ inv[i].dedicated
           /\ inv[i].pc \in {"dedSpawn", "route", "save"})
          => LET path == "tunnel-" \o inv[i].parsed.key \o ".yml"
             IN  /\ path \in DOMAIN configs
                 /\ path \in inv[i].eff.cfg
                 /\ configs[path].ingress =
                       <<[hostname |-> inv[i].parsed.hostname,
                          service |-> "http://localhost:" \o ToString(inv[i].port)],
                         [service |-> "http_status:404"]>>
    /\ (Completed("ok") /\ done[1].op = "start" /\ done[1].dedicated)
       => LET path == "tunnel-" \o done[1].key \o ".yml"
              server == Get(done[1].after.file.servers, done[1].key)
          IN  /\ path \in done[1].eff.cfg
              /\ done[1].after.configs[path].ingress =
                    <<[hostname |-> server.hostname,
                       service |-> "http://localhost:" \o ToString(server.port)],
                      [service |-> "http_status:404"]>>

\* a dedicated start of a full hostname on an allocated port
C30_Witness ==
    /\ Completed("ok") /\ done[1].op = "start" /\ done[1].dedicated
    /\ done[1].externalPort = NoPort
    /\ done[1].input = "x.b.io"
    /\ "tunnel-x-b-io.yml" \in DOMAIN configs
    /\ Len(configs["tunnel-x-b-io.yml"].ingress) = 2

\* the state keys of the hostnames the commands are given
StateKeys == {ParsedInputs[h].key : h \in HostInputs}

\* the fields of a server record that stay as the start wrote them
Identity(server) ==
    <<server.port, server.hostname, server.pid, server.tunnelMode, server.tunnelName>>

\* C31: per state key the persisted state changes only from absent to active,
\* in a save of a start of that key that then ends with success, and from
\* active to absent, in a save of a stop that resolved to that key; from one
\* persisted state to the next an active record keeps its port, hostname,
\* process id, tunnel mode and tunnel name.
C31_KeyLifecycle ==
    [][/\ \A k \in StateKeys :
            LET was == Has(stateFile.servers, k)
                is == Has(stateFile'.servers, k)
            IN  /\ (was /\ is) =>
                      Identity(Get(stateFile'.servers, k)) = Identity(Get(stateFile.servers, k))
                /\ (~was /\ is) =>
                      \E i \in Invocations :
                          /\ inv[i].op = "start" /\ inv[i].parsed.key = k
                          /\ inv[i].pc \in {"mgdSave", "save"}
                /\ (was /\ ~is) =>
                      \E i \in Invocations :
                          /\ inv[i].op = "stop" /\ inv[i].server.key = k
                          /\ inv[i].pc \in {"mgdSave", "save"}
       /\ (/\ done' # <<>> /\ done # done'
           /\ done'[1].op = "start" /\ done'[1].outcome # "ok")
          => ~Has(stateFile'.servers, done'[1].key)
             \/ Has(done'[1].before.file.servers, done'[1].key)]_vars

\* a stop has removed the record of its key and the record of another key,
\* started before it, is in the persisted state as that start wrote it
C31_Witness ==
    /\ Completed("ok") /\ done[1].op = "stop"
    /\ ~Has(stateFile.servers, done[1].server.key)
    /\ \E k \in StateKeys :
          /\ Has(stateFile.servers, k)
          /\ Has(done[1].before.file.servers, k)
          /\ Get(stateFile.servers, k) = Get(done[1].before.file.servers, k)

\* C34: in every persisted state each server record's tunnelName has a tunnel
\* record: the managed tunnel's for a managed server, that of <key>-tunnel for
\* a dedicated one, also after a dedicated server whose <key>-tunnel is the
\* managed tunnel name was stopped while managed servers remain.
C34_TunnelRecordPerServer ==
    \A server \in ServersOf(stateFile) :
        /\ Has(stateFile.tunnels, server.tunnelName)
        /\ server.tunnelMode = "managed" => server.tunnelName = MANAGED_TUNNEL_NAME
        /\ server.tunnelMode = "dedicated" => server.tunnelName = server.key \o "-tunnel"

\* the dedicated-mode server records of a document that carry a tunnel name
DedicatedServersOf(doc, tunnelName) ==
    {server \in ServersOf(doc) :
        server.tunnelMode = "dedicated" /\ server.tunnelName = tunnelName}

\* C35: in every persisted state each tunnel record other than the managed
\* tunnel's is referenced by exactly one dedicated-mode server record; a
\* successful stop of a dedicated server leaves no record of its tunnel, and a
\* start that failed leaves the tunnel records as they were.
C35_DedicatedTunnelRecordOwned ==
    /\ \A j \in 1..Len(stateFile.tunnels) :
          stateFile.tunnels[j].key # MANAGED_TUNNEL_NAME
          => Cardinality(DedicatedServersOf(stateFile, stateFile.tunnels[j].key)) = 1
    /\ (/\ Completed("ok") /\ done[1].op = "stop"
        /\ done[1].server.tunnelMode = "dedicated")
       => ~Has(done[1].after.file.tunnels, done[1].server.tunnelName)
    /\ (done # <<>> /\ done[1].op = "start" /\ done[1].outcome # "ok")
       => done[1].after.file.tunnels = done[1].before.file.tunnels

\* a dedicated server was stopped while another dedicated server and its
\* tunnel record stay
C35_Witness ==
    /\ Completed("ok") /\ done[1].op = "stop"
    /\ done[1].server.tunnelMode = "dedicated"
    /\ done[1].server.tunnelName # MANAGED_TUNNEL_NAME
    /\ Has(done[1].before.file.tunnels, done[1].server.tunnelName)
    /\ \E j \in 1..Len(stateFile.tunnels) :
          stateFile.tunnels[j].key # MANAGED_TUNNEL_NAME

\* the state key a running command works on: the parsed key of a start, the
\* key a stop resolved to
KeyOf(r) == IF r.op = "stop" THEN r.server.key ELSE r.parsed.key

C36_OneManagedController ==
    Idle =>
        LET unsignalled == {p \in DOMAIN procKind : procKind[p] = "managed"} \ signalled
        IN  /\ Cardinality(unsignalled) <= 1
            /\ \A p \in unsignalled :
                  /\ Has(stateFile.tunnels, MANAGED_TUNNEL_NAME)
                  /\ Get(stateFile.tunnels, MANAGED_TUNNEL_NAME).pid = p

\* a second managed command has restarted the tunnel: the controller of the
\* first was signalled, that of the second is running and on record
C36_Witness ==
    /\ Idle /\ Completed("ok")
    /\ \E p \in signalled \cap DOMAIN procKind : procKind[p] = "managed"
    /\ Has(stateFile.tunnels, MANAGED_TUNNEL_NAME)
    /\ \E p \in alive \ signalled :
          /\ procKind[p] = "managed"
          /\ Get(stateFile.tunnels, MANAGED_TUNNEL_NAME).pid = p

\* with two overlapping managed starts: both have ended, and two controllers
\* of the managed tunnel are running, neither of them signalled
TwoManagedControllers ==
    /\ Idle
    /\ Cardinality({p \in alive \ signalled : procKind[p] = "managed"}) = 2

\* the start command i is about to save, the other start has ended with
\* success, each loaded the state file before the other had saved, and both
\* were allocated the same port
SamePortRace(i) ==
    /\ inv[i].pc = "save" /\ inv[i].externalPort = NoPort
    /\ Completed("ok") /\ done[1].op = "start" /\ done[1].externalPort = NoPort
    /\ done[1].key # inv[i].parsed.key
    /\ ~Has(inv[i].before.file.servers, done[1].key)
    /\ ~Has(done[1].before.file.servers, inv[i].parsed.key)
    /\ Get(done[1].after.file.servers, done[1].key).port = inv[i].port

\* the records of a document, under different keys, whose server processes
\* both run and that share one port
SharedPort(doc) ==
    {pair \in ServersOf(doc) \X ServersOf(doc) :
        /\ pair[1].key # pair[2].key
        /\ pair[1].port = pair[2].port
        /\ pair[1].pid > 0 /\ pair[2].pid > 0}

\* C32 (as stated): when two starts without externalPort that both loaded the
\* state before either saved were allocated the same port, the persisted state
\* left by the second save holds two server records with live processes that
\* share the port.
C32_SharedPortPersisted ==
    [][\A i \in Invocations :
          (SamePortRace(i) /\ inv'[i].pc = "idle") => SharedPort(stateFile') # {}]_vars

\* C32 (amended): two overlapping starts without externalPort can be allocated
\* the same port and both spawn a server on it, but no persisted state holds
\* two records with server processes on one port: a successful start leaves
\* the records it loaded and its own, so the second save drops the record of
\* the first; and while no other command has written the state file since a
\* start loaded it, the port of that start differs from the port of every
\* other record in the file.
C32_SharedPortNeverPersisted ==
    /\ SharedPort(stateFile) = {}
    /\ (Completed("ok") /\ done[1].op = "start")
       => /\ Has(done[1].after.file.servers, done[1].key)
          /\ ServersOf(done[1].after.file) =
                ServersOf(done[1].before.file)
                   \cup {Get(done[1].after.file.servers, done[1].key)}
    /\ \A i \in Invocations :
          (/\ inv[i].op = "start" /\ inv[i].externalPort = NoPort
           /\ inv[i].port # 0
           /\ stateFile = FileAsLeftBy(i))
          => \A server \in ServersOf(stateFile) :
                server.key # inv[i].parsed.key => server.port # inv[i].port

\* one start has saved its record, the other is about to save one with the
\* same port, and both server processes are running
C32_Witness ==
    \E i \in Invocations :
        /\ SamePortRace(i)
        /\ inv[i].serverPid \in alive
        /\ Has(stateFile.servers, done[1].key)
        /\ Get(stateFile.servers, done[1].key).pid \in alive

\* C33: every start and every stop comes to its end: by a failure exit or,
\* after its last save of the state, with its result; and the port the probe
\* loop of the allocator answers is at most as many ports above the base port
\* as there are server records.
C33_Terminates ==
    /\ \A i \in Sequential :
          (inv[i].pc # "idle") ~>
              (/\ inv[i].pc = "idle"
               /\ done # <<>>
               /\ done[1].outcome = "ok" =>
                     /\ done[1].eff.saves >= 1
                     /\ stateFile = done[1].after.file)
    /\ [](\A i \in Sequential :
            (inv[i].pc \notin {"idle", "check", "port"} /\ inv[i].op = "start"
             /\ inv[i].externalPort = NoPort)
            => /\ inv[i].port >= BASE_PORT
               /\ inv[i].port <= BASE_PORT + Len(inv[i].before.file.servers))

\* a stop that restarted the managed tunnel has ended with its result
C33_Witness ==
    /\ Idle /\ Completed("ok") /\ done[1].op = "stop"
    /\ done[1].eff.spawned # {}
    /\ done[1].eff.saves = 2

====
